---- MODULE Spec2Model ----
(***************************************************************************)
(* Grover search API (backend/grover_api.py): request validation, the      *)
(* iteration-count formula, the gate-level circuit construction and its    *)
(* exact state-vector evolution, the per-step probability trace, the       *)
(* measurement counts of a search and the figures of the analysis.         *)
(*                                                                         *)
(* Amplitudes are kept exact: a state vector is a pair (amp, e) that       *)
(* stands for the real amplitudes amp[i] / sqrt(2)^e.  Every gate used by  *)
(* the program (H, X, Z, CZ, CCZ, MCX) maps such vectors to such vectors.  *)
(* A probability is the pair numerator amp[i]^2 over denominator 2^e.      *)
(***************************************************************************)
EXTENDS Integers, Sequences, FiniteSets, TLC

VARIABLES endpoint, target_state, shots_field, pc, status_code, shots,
          optimal_iterations, qc, oracle, iteration, steps, analysis,
          response, runs, hardware

vars == <<endpoint, target_state, shots_field, pc, status_code, shots,
          optimal_iterations, qc, oracle, iteration, steps, analysis,
          response, runs, hardware>>

----------------------------------------------------------------------------
(* Configuration and bounds *)

MIN_QUBITS == 1
MAX_QUBITS == 8

\* longest target string a client sends
MaxLen == 9
\* largest number of qubits whose circuit is built and simulated
MaxSimQubits == 3

\* characters a client may put in a target string ("x" stands for any
\* character other than '0' and '1' that a JSON string and a path segment
\* can both carry)
Alphabet == {"0", "1", "x"}

Endpoints == {"search", "analyze", "circuit", "iterations"}

\* GroverRequest.shots: Field(1000, ge=100, le=10000)
DEFAULT_SHOTS == 1000
MIN_SHOTS == 100
MAX_SHOTS == 10000

\* the shots a client puts in a search request; the field may also be
\* left out
ShotInputs == {0 - 100, 0, 50, 99, 100, 101, 1000, 9999, 10000, 10001, 20000}

\* longest target string of the requests that try the shots field
MaxShotLen == 2

\* most shots that miss the target in a run that also finds it
MaxScatter == 1

\* math.pi squared, as the ratio PiSqNum / PiSqDen
PiSqNum == 98696
PiSqDen == 10000

RECURSIVE StringsOfLen(_)
StringsOfLen(k) ==
    IF k = 0 THEN {<<>>}
    ELSE {Append(s, c) : s \in StringsOfLen(k - 1), c \in Alphabet}

Targets == UNION {[1..k -> Alphabet] : k \in 0..MaxLen}

RECURSIVE Pow2(_)
Pow2(k) == IF k = 0 THEN 1 ELSE 2 * Pow2(k - 1)

----------------------------------------------------------------------------
(* Target validation *)

AllBinary(v) == \A i \in 1..Len(v) : v[i] \in {"0", "1"}

\* the pattern without its upper repetition bound: ^[01]{MIN_QUBITS,}$
PatternMatch_NoUpperBound(v) ==
    /\ AllBinary(v)
    /\ Len(v) >= MIN_QUBITS

\* the regular expression ^[01]{MIN_QUBITS,MAX_QUBITS}$ of the request
\* field and of the three path parameters
PatternMatch(v) ==
    /\ AllBinary(v)
    /\ Len(v) >= MIN_QUBITS
    /\ Len(v) <= MAX_QUBITS

\* GroverRequest.validate_target_state: TRUE when no ValueError is raised
validate_target_state(v) ==
    IF Len(v) = 0 \/ ~AllBinary(v) THEN FALSE
    ELSE IF Len(v) < MIN_QUBITS \/ Len(v) > MAX_QUBITS THEN FALSE
    ELSE TRUE

\* the check repeated at the top of the analyze, circuit and iterations
\* handlers: 0 when it passes, else the HTTP status it raises
HandlerTargetCheck(v) ==
    IF Len(v) = 0 \/ ~AllBinary(v) THEN 400
    ELSE IF Len(v) < MIN_QUBITS \/ Len(v) > MAX_QUBITS THEN 400
    ELSE 0

\* the request model of search declared without pattern and validator
FrameworkStatus_SearchUnchecked(ep, v) ==
    IF ep = "search" THEN 0
    ELSE IF Len(v) = 0 THEN 404
         ELSE IF PatternMatch(v) THEN 0 ELSE 422

\* status with which the framework answers before the handler runs, 0
\* when the request is handed to the handler
FrameworkStatus(ep, v) ==
    IF ep = "search"
    THEN IF PatternMatch(v) /\ validate_target_state(v) THEN 0 ELSE 422
    ELSE IF Len(v) = 0 THEN 404
         ELSE IF PatternMatch(v) THEN 0 ELSE 422

\* the shots field read without its upper limit: Field(1000, ge=100)
ShotsStatus_NoUpperLimit(ep, field) ==
    IF ep = "search" /\ Len(field) = 1 /\ field[1] < MIN_SHOTS
    THEN 422 ELSE 0

\* status with which the framework answers the shots field of a request:
\* 422 when a search request carries a value outside [MIN_SHOTS,
\* MAX_SHOTS], 0 otherwise; <<>> is the field left out
ShotsStatus(ep, field) ==
    IF ep = "search" /\ Len(field) = 1
           /\ (field[1] < MIN_SHOTS \/ field[1] > MAX_SHOTS)
    THEN 422 ELSE 0

\* request.shots of a validated request: the value sent, or the default
RequestShots(field) == IF Len(field) = 1 THEN field[1] ELSE DEFAULT_SHOTS

----------------------------------------------------------------------------
(* Iteration count *)

\* math.ceil in place of int: the smallest k with (4k)^2 >= pi^2 * N
RECURSIVE FloorPiOver4Sqrt_Ceil(_, _)
FloorPiOver4Sqrt_Ceil(k, N) ==
    IF 16 * k * k * PiSqDen >= PiSqNum * N THEN k
    ELSE FloorPiOver4Sqrt_Ceil(k + 1, N)

\* int(x * sqrt(N)) for x = pi/4: the largest k with (4k)^2 <= pi^2 * N
RECURSIVE FloorPiOver4Sqrt(_, _)
FloorPiOver4Sqrt(k, N) ==
    IF 16 * (k + 1) * (k + 1) * PiSqDen > PiSqNum * N THEN k
    ELSE FloorPiOver4Sqrt(k + 1, N)

Max(a, b) == IF a >= b THEN a ELSE b

\* the count rounded up instead of truncated
CircuitOptimalIterations_RoundUp(num_qubits) ==
    LET N == Pow2(num_qubits)
        M == 1
    IN  Max(1, FloorPiOver4Sqrt(0, N \div M) + 1)

\* create_grover_circuit: max(1, int(math.pi / 4 * math.sqrt(N / M)))
CircuitOptimalIterations(num_qubits) ==
    LET N == Pow2(num_qubits)
        M == 1
    IN  Max(1, FloorPiOver4Sqrt(0, N \div M))

\* the count for as many marked states as the target has ones, in place
\* of the single one
AnalyzeOptimalIterations_ByOnes(num_qubits) ==
    LET N == Pow2(num_qubits)
        M == 1 + Cardinality({i \in 1..Len(target_state) :
                                  target_state[i] = "1"})
    IN  Max(1, FloorPiOver4Sqrt(0, N \div M))

\* analyze_target_state: max(1, int(math.pi / 4 * math.sqrt(N)))
AnalyzeOptimalIterations(num_qubits) ==
    LET N == Pow2(num_qubits)
    IN  Max(1, FloorPiOver4Sqrt(0, N))

\* get_grover_iterations: max(1, int(math.pi / 4 * math.sqrt(N)))
TraceOptimalIterations(num_qubits) ==
    LET N == Pow2(num_qubits)
    IN  Max(1, FloorPiOver4Sqrt(0, N))

\* the examples table of get_info: qubits -> optimal_iterations
InfoExamples ==
    [n \in {1, 2, 3, 4, 5, 8} |->
        CASE n = 1 -> 1
          [] n = 2 -> 1
          [] n = 3 -> 2
          [] n = 4 -> 3
          [] n = 5 -> 4
          [] n = 8 -> 12]

----------------------------------------------------------------------------
(* Bit strings *)

\* int(s, 2)
RECURSIVE ParseBin(_)
ParseBin(s) ==
    IF Len(s) = 0 THEN 0
    ELSE 2 * ParseBin(SubSeq(s, 1, Len(s) - 1))
         + (IF s[Len(s)] = "1" THEN 1 ELSE 0)

\* format(i, '0{n}b')
RECURSIVE FormatBin(_, _)
FormatBin(i, n) ==
    IF n = 0 THEN <<>>
    ELSE Append(FormatBin(i \div 2, n - 1), IF i % 2 = 1 THEN "1" ELSE "0")

\* target_state[::-1]
RECURSIVE Reverse(_)
Reverse(s) ==
    IF Len(s) = 0 THEN <<>> ELSE Append(Reverse(Tail(s)), Head(s))

----------------------------------------------------------------------------
(* Gates and circuits *)

\* A gate is [g, q]: g its name and q the qubit it acts on.  The controlled
\* gates cz, ccz and mcx act on qubit q under the controls 0..q-1, which is
\* how every call of the program passes them.
Gate(name, qubit) == [g |-> name, q |-> qubit]

\* QuantumCircuit(num_qubits): no instruction yet
QuantumCircuit(n) == [num_qubits |-> n, data |-> <<>>]

\* no circuit object exists
NoCircuit == [num_qubits |-> 0, data |-> <<>>]

\* qc.compose(other, inplace=True) and the qc.<gate>(...) calls
Compose(circ, gates) == [circ EXCEPT !.data = circ.data \o gates]

\* qc.h(range(num_qubits - 1)): the last qubit left out
HLayer_SkipLast(n) == [i \in 1..(n - 1) |-> Gate("h", i - 1)]

\* qc.h(range(num_qubits))
HLayer(n) == [i \in 1..n |-> Gate("h", i - 1)]

\* qc.x(range(num_qubits))
XLayer(n) == [i \in 1..n |-> Gate("x", i - 1)]

\* qc.measure(range(num_qubits), range(num_qubits))
MeasureLayer(n) == [i \in 1..n |-> Gate("measure", i - 1)]

\* the X gates of the oracle: one on each qubit i whose bit in
\* target_bits (the reversed target) is 0, in increasing i
OracleXGates(target_bits) ==
    LET IsZero(gate) == target_bits[gate.q + 1] = "0"
    IN  SelectSeq(XLayer(Len(target_bits)), IsZero)

\* the multi-controlled Z of build_generalized_grover_oracle
OracleControlledZ(num_qubits) ==
    IF num_qubits = 1 THEN <<Gate("z", 0)>>
    ELSE IF num_qubits = 2 THEN <<Gate("cz", 1)>>
    ELSE IF num_qubits = 3 THEN <<Gate("ccz", 2)>>
    ELSE LET target_qubit == num_qubits - 1
         IN  IF num_qubits - 1 = 1 THEN <<Gate("cz", target_qubit)>>
             ELSE <<Gate("h", target_qubit), Gate("mcx", target_qubit),
                    Gate("h", target_qubit)>>

\* the oracle built from the target bits without reversing them
build_generalized_grover_oracle_NoReverse(target) ==
    LET num_qubits  == Len(target)
        target_bits == target
    IN  Compose(QuantumCircuit(num_qubits),
                OracleXGates(target_bits)
                \o OracleControlledZ(num_qubits)
                \o OracleXGates(target_bits))

build_generalized_grover_oracle(target) ==
    LET num_qubits  == Len(target)
        target_bits == Reverse(target)
    IN  Compose(QuantumCircuit(num_qubits),
                OracleXGates(target_bits)
                \o OracleControlledZ(num_qubits)
                \o OracleXGates(target_bits))

\* the diffusion operator appended by create_grover_circuit
CircuitDiffusion(num_qubits) ==
    HLayer(num_qubits) \o XLayer(num_qubits)
    \o (IF num_qubits = 1 THEN <<Gate("z", 0)>>
        ELSE IF num_qubits = 2 THEN <<Gate("cz", 1)>>
        ELSE IF num_qubits = 3 THEN <<Gate("ccz", 2)>>
        ELSE LET target_qubit == num_qubits - 1
             IN  IF num_qubits - 1 = 1 THEN <<Gate("cz", target_qubit)>>
                 ELSE <<Gate("h", target_qubit), Gate("mcx", target_qubit),
                        Gate("h", target_qubit)>>)
    \o XLayer(num_qubits) \o HLayer(num_qubits)

\* the diffusion operator without its two X layers
TraceDiffusion_NoX(num_qubits) ==
    HLayer(num_qubits)
    \o (IF num_qubits = 1 THEN <<Gate("z", 0)>>
        ELSE IF num_qubits = 2 THEN <<Gate("cz", 1)>>
        ELSE IF num_qubits = 3 THEN <<Gate("ccz", 2)>>
        ELSE LET target_qubit == num_qubits - 1
             IN  <<Gate("h", target_qubit), Gate("mcx", target_qubit),
                   Gate("h", target_qubit)>>)
    \o HLayer(num_qubits)

\* the diffusion operator appended by get_grover_iterations
TraceDiffusion(num_qubits) ==
    HLayer(num_qubits) \o XLayer(num_qubits)
    \o (IF num_qubits = 1 THEN <<Gate("z", 0)>>
        ELSE IF num_qubits = 2 THEN <<Gate("cz", 1)>>
        ELSE IF num_qubits = 3 THEN <<Gate("ccz", 2)>>
        ELSE LET target_qubit == num_qubits - 1
             IN  IF num_qubits - 1 = 1 THEN <<Gate("cz", target_qubit)>>
                 ELSE <<Gate("h", target_qubit), Gate("mcx", target_qubit),
                        Gate("h", target_qubit)>>)
    \o XLayer(num_qubits) \o HLayer(num_qubits)

----------------------------------------------------------------------------
(* Exact state vectors *)

\* bit q of basis index i (qubit 0 is the least significant bit)
Bit(i, q) == (i \div Pow2(q)) % 2

\* the qubits 0..q-1 of basis index i are all 1
ControlsSet(i, q) == i % Pow2(q) = Pow2(q) - 1

\* index i with bit q flipped
FlipBit(i, q) == IF Bit(i, q) = 0 THEN i + Pow2(q) ELSE i - Pow2(q)

\* lowest-exponent representation of amp / sqrt(2)^e
RECURSIVE Normalize(_)
Normalize(sv) ==
    IF sv.e >= 2 /\ \A i \in DOMAIN sv.amp : sv.amp[i] % 2 = 0
    THEN Normalize([amp |-> [i \in DOMAIN sv.amp |-> sv.amp[i] \div 2],
                    e   |-> sv.e - 2])
    ELSE sv

\* |0...0> on n qubits
ZeroState(n) == [amp |-> [i \in 0..(Pow2(n) - 1) |-> IF i = 0 THEN 1 ELSE 0],
                 e   |-> 0]

\* the unitary of one gate applied to a state vector; the vector and the
\* gate are taken as values (in_sv, in_gate) before the amplitudes are
\* written down
ApplyGate(sv, gate) ==
    CHOOSE out \in
        {LET a == in_sv.amp
             q == in_gate.q
         IN  CASE in_gate.g = "h" ->
                    Normalize([amp |-> [i \in DOMAIN a |->
                                          IF Bit(i, q) = 0
                                          THEN a[i] + a[FlipBit(i, q)]
                                          ELSE a[FlipBit(i, q)] - a[i]],
                               e   |-> in_sv.e + 1])
               [] in_gate.g = "x" ->
                    [in_sv EXCEPT
                       !.amp = [i \in DOMAIN a |-> a[FlipBit(i, q)]]]
               [] in_gate.g \in {"z", "cz", "ccz"} ->
                    [in_sv EXCEPT
                       !.amp = [i \in DOMAIN a |->
                                  IF ControlsSet(i, q) /\ Bit(i, q) = 1
                                  THEN 0 - a[i] ELSE a[i]]]
               [] in_gate.g = "mcx" ->
                    [in_sv EXCEPT
                       !.amp = [i \in DOMAIN a |->
                                  IF ControlsSet(i, q)
                                  THEN a[FlipBit(i, q)] ELSE a[i]]]
               [] OTHER -> in_sv :
             in_sv \in {sv}, in_gate \in {gate}} : TRUE

\* TRUE, after every amplitude of sv has been computed: a function
\* constructor is evaluated entry by entry on demand, and comparing the
\* function computes all its entries once
Computed(sv) == sv.amp = sv.amp

\* a sequence cut in two halves
SplitInHalf(s) ==
    <<SubSeq(s, 1, Len(s) \div 2), SubSeq(s, Len(s) \div 2 + 1, Len(s))>>

\* the gates applied in order: the left half, then the right half
RECURSIVE ApplyGates(_, _)
ApplyGates(sv, gates) ==
    IF Len(gates) = 0 THEN sv
    ELSE IF Len(gates) = 1 THEN ApplyGate(sv, gates[1])
    ELSE CHOOSE out \in
             UNION {{IF Computed(mid) THEN ApplyGates(mid, half[2])
                     ELSE mid :
                         mid \in {ApplyGates(sv, half[1])}} :
                    half \in {SplitInHalf(gates)}} : TRUE

\* Statevector.from_instruction(qc)
StatevectorFromInstruction(circ) ==
    CHOOSE sv \in {ApplyGates(ZeroState(instruction.num_qubits),
                              instruction.data) :
                       instruction \in {circ}} : TRUE

\* [abs(amplitude) for amplitude in statevector]: the square forgotten
ProbNums_NoSquare(sv) ==
    [i \in DOMAIN sv.amp |->
        IF sv.amp[i] < 0 THEN 0 - sv.amp[i] ELSE sv.amp[i]]

\* [abs(amplitude)**2 for amplitude in statevector], as numerators over
\* the common denominator ProbDen
ProbNums(sv) == [i \in DOMAIN sv.amp |-> sv.amp[i] * sv.amp[i]]
ProbDen(sv) == Pow2(sv.e)

\* {format(i, f'0{num_qubits}b'): prob for i, prob in enumerate(probs)}
ProbDict(probs, num_qubits) ==
    LET keys == {FormatBin(i, num_qubits) : i \in DOMAIN probs}
    IN  [k \in keys |->
            probs[CHOOSE i \in DOMAIN probs : FormatBin(i, num_qubits) = k]]

\* the step numbered with the zero-based loop variable
IterationStep_ZeroBased(name, number, sv, num_qubits, target_index) ==
    CHOOSE step \in
        {[step_name          |-> name,
          iteration_number   |-> IF number > 0 THEN number - 1 ELSE 0,
          probabilities      |-> ProbDict(ProbNums(state), num_qubits),
          target_probability |-> ProbNums(state)[target_index],
          prob_den           |-> ProbDen(state)] : state \in {sv}} : TRUE

\* IterationStep(step_name, iteration_number, probabilities,
\* target_probability); prob_den is the denominator of every probability
IterationStep(name, number, sv, num_qubits, target_index) ==
    CHOOSE step \in
        {[step_name          |-> name,
          iteration_number   |-> number,
          probabilities      |-> ProbDict(ProbNums(state), num_qubits),
          target_probability |-> ProbNums(state)[target_index],
          prob_den           |-> ProbDen(state)] : state \in {sv}} : TRUE

----------------------------------------------------------------------------
(* Numbers in the responses *)

\* A real number of a response is kept exact, as the fraction num / den
\* in lowest terms with den > 0.

\* sum(f.values()) over the keys S of f
RECURSIVE SumOver(_, _)
SumOver(f, S) ==
    IF S = {} THEN 0
    ELSE LET x == CHOOSE y \in S : TRUE
         IN  f[x] + SumOver(f, S \ {x})

RECURSIVE GCD(_, _)
GCD(a, b) ==
    IF b = 0 THEN a
    ELSE CHOOSE g \in {GCD(b, r) : r \in {a % b}} : TRUE

\* the fraction num / den of two naturals, den > 0
Rat(num, den) ==
    LET g == GCD(num, den)
    IN  [num |-> num \div g, den |-> den \div g]

\* a / k for a fraction a and a positive integer k
RatDiv(a, k) == Rat(a.num, a.den * k)

\* min(a, b) of two fractions
RatMin(a, b) == IF a.num * b.den <= b.num * a.den THEN a ELSE b

RECURSIVE Pow10(_)
Pow10(k) == IF k = 0 THEN 1 ELSE 10 * Pow10(k - 1)

\* the integer nearest to num / den, the even one of the two when num / den
\* lies half way between them
RoundHalfEven(num, den) ==
    LET q == num \div den
        r == num % den
    IN  IF 2 * r < den THEN q
        ELSE IF 2 * r > den THEN q + 1
        ELSE IF q % 2 = 0 THEN q ELSE q + 1

\* int(x * 10**ndigits) / 10**ndigits: the digits after ndigits cut off
Round_Truncate(x, ndigits) ==
    Rat((x.num * Pow10(ndigits)) \div x.den, Pow10(ndigits))

\* round(x, ndigits) of a non-negative x
Round(x, ndigits) ==
    Rat(RoundHalfEven(x.num * Pow10(ndigits), x.den), Pow10(ndigits))

\* sin((2m+1)*t) and cos((2m+1)*t) for t = asin(1/sqrt(N)), N a power of
\* two: the record [x, y, d] stands for sin = x / (d * sqrt(N)) and
\* cos = y * sqrt(N-1) / (d * sqrt(N)).  The angle 2t is added m times,
\* with cos(2t) = (N-2)/N and sin(2t) = 2*sqrt(N-1)/N.
RECURSIVE SinCosOdd(_, _)
SinCosOdd(N, m) ==
    IF m = 0 THEN [x |-> 1, y |-> 1, d |-> 1]
    ELSE CHOOSE out \in
             {[x |-> p.x * ((N - 2) \div 2) + (N - 1) * p.y,
               y |-> p.y * ((N - 2) \div 2) - p.x,
               d |-> p.d * (N \div 2)] : p \in {SinCosOdd(N, m - 1)}} : TRUE

\* the angle taken as (2*optimal_iterations - 1) * asin(1/sqrt(N))
TheoreticalSuccess_OneAngleLess(N, optimal) ==
    LET p == SinCosOdd(N, optimal - 1)
    IN  RatMin(Rat(100, 1), Rat(100 * p.x * p.x, N * p.d * p.d))

\* min(100.0, (math.sin((2 * optimal_iterations + 1)
\*                      * math.asin(1/math.sqrt(N))) ** 2) * 100)
TheoreticalSuccess(N, optimal) ==
    LET p == SinCosOdd(N, optimal)
    IN  RatMin(Rat(100, 1), Rat(100 * p.x * p.x, N * p.d * p.d))

\* the final probability multiplied by the initial one
Amplification_Product(final_target_prob, initial_target_prob) ==
    Rat(final_target_prob.num * initial_target_prob.num,
        final_target_prob.den * initial_target_prob.den)

\* amplification = final_target_prob / initial_target_prob
Amplification(final_target_prob, initial_target_prob) ==
    Rat(final_target_prob.num * initial_target_prob.den,
        final_target_prob.den * initial_target_prob.num)

\* a number the model does not compute: its digits do not fit
NotComputed == [num |-> 0, den |-> 0]

----------------------------------------------------------------------------
(* Measurement *)

\* the second argument of qc.measure reversed: qubit i into the classical
\* bit num_qubits - 1 - i
MeasuredClbit_Reversed(qubit, num_qubits) == num_qubits - 1 - qubit

\* qc.measure(range(num_qubits), range(num_qubits)): the classical bit that
\* receives the value of a qubit
MeasuredClbit(qubit, num_qubits) == qubit

\* the key of get_counts() for a shot that finds the qubits in basis state
\* i: the classical bits written from the highest to bit 0
CountsKey(i, num_qubits) ==
    [j \in 1..num_qubits |->
        LET qubit == CHOOSE q \in 0..(num_qubits - 1) :
                         MeasuredClbit(q, num_qubits) = num_qubits - j
        IN  IF Bit(i, qubit) = 1 THEN "1" ELSE "0"]

\* the basis states a shot can find: those of non-zero probability
Support(probs) == {i \in DOMAIN probs : probs[i] > 0}

\* the run started without its shots argument: the simulator's own 1024
SimulatorShots_Default(request_shots) == 1024

\* simulator.run(transpiled_circuit, shots=request.shots): the shots taken
SimulatorShots(request_shots) == request_shots

\* how often each basis state is found when every shot finds m except
\* those listed in scatter
Tally(support, m, scatter, run_shots) ==
    [i \in support |->
        IF i = m THEN run_shots - Len(scatter)
        ELSE Cardinality({p \in 1..Len(scatter) : scatter[p] = i})]

\* the results of a run of run_shots shots that are told apart: every
\* shot finds the same basis state of the support, or up to MaxScatter
\* shots find one other basis state and all the others find the target
Outcomes(support, target_index, run_shots) ==
    {Tally(support, m, <<>>, run_shots) : m \in support}
    \cup {Tally(support, target_index, [p \in 1..j |-> o], run_shots) :
              o \in support \ {target_index}, j \in 1..MaxScatter}

\* result.get_counts(): the keys of the basis states found at least once
GetCounts(tally, num_qubits) ==
    LET found == {i \in DOMAIN tally : tally[i] > 0}
        keys  == {CountsKey(i, num_qubits) : i \in found}
    IN  [k \in keys |->
            tally[CHOOSE i \in found : CountsKey(i, num_qubits) = k]]

\* counts.get(key, default)
CountsGet(counts, key, default) ==
    IF key \in DOMAIN counts THEN counts[key] ELSE default

\* the count divided by the default number of shots
SuccessRate_DefaultShots(target_count, request_shots) ==
    Rat(target_count * 100, DEFAULT_SHOTS)

\* (target_count / request.shots) * 100
SuccessRate(target_count, request_shots) ==
    Rat(target_count * 100, request_shots)

----------------------------------------------------------------------------
(* The request state machine *)

NoAnalysis == [num_qubits |-> 0, search_space_size |-> 0,
               optimal_iterations |-> 0]

\* no response body has been built
NoResponse == [num_qubits |-> 0]

\* no hardware request is being followed
NoHardware == [pc |-> "none"]

\* what every request starts with
Received ==
    /\ pc = "received"
    /\ status_code = 0
    /\ shots = 0
    /\ optimal_iterations = 0
    /\ qc = NoCircuit
    /\ oracle = NoCircuit
    /\ iteration = 0
    /\ steps = <<>>
    /\ analysis = NoAnalysis
    /\ response = NoResponse

\* any of the four requests with any target string; a search request
\* leaves its shots field out
Init ==
    /\ endpoint \in Endpoints
    /\ target_state \in Targets
    /\ shots_field = <<>>
    /\ Received
    /\ runs = <<>>
    /\ hardware = NoHardware

\* any of the four requests with a short target string; a search request
\* carries any shots value or none
InitShots ==
    /\ endpoint \in Endpoints
    /\ target_state \in UNION {StringsOfLen(k) : k \in 0..MaxShotLen}
    /\ shots_field \in IF endpoint = "search"
                       THEN {<<>>} \cup {<<s>> : s \in ShotInputs}
                       ELSE {<<>>}
    /\ Received
    /\ runs = <<>>
    /\ hardware = NoHardware

\* The framework matches the route and validates the request model or the
\* path parameter before any handler code runs.
ValidateRequest ==
    /\ pc = "received"
    /\ LET field_st == FrameworkStatus(endpoint, target_state)
           st       == IF field_st # 0 THEN field_st
                       ELSE ShotsStatus(endpoint, shots_field)
       IN  IF st = 0
           THEN /\ pc' = IF endpoint = "search" THEN "validated" ELSE "handler"
                /\ shots' = IF endpoint = "search"
                            THEN RequestShots(shots_field) ELSE shots
                /\ UNCHANGED status_code
           ELSE /\ pc' = "done"
                /\ status_code' = st
                /\ UNCHANGED shots
    /\ UNCHANGED <<runs, hardware>>
    /\ UNCHANGED <<endpoint, target_state, shots_field, optimal_iterations,
                   qc, oracle, iteration, steps, analysis, response>>

\* The manual validation at the top of analyze_target_state,
\* get_circuit_info and get_grover_iterations.
CheckTarget ==
    /\ pc = "handler"
    /\ LET st == HandlerTargetCheck(target_state)
       IN  IF st = 0
           THEN /\ pc' = "validated"
                /\ UNCHANGED status_code
           ELSE /\ pc' = "done"
                /\ status_code' = st
    /\ UNCHANGED <<runs, hardware>>
    /\ UNCHANGED <<endpoint, target_state, shots_field, shots,
                   optimal_iterations, qc, oracle, iteration, steps, analysis,
                   response>>

\* analyze_target_state after its validation
Analyze ==
    /\ pc = "validated"
    /\ endpoint = "analyze"
    /\ LET num_qubits == Len(target_state)
           N          == Pow2(num_qubits)
           opt        == AnalyzeOptimalIterations(num_qubits)
           theoretical_success ==
               IF num_qubits <= MaxSimQubits
               THEN TheoreticalSuccess(N, opt) ELSE NotComputed
           classical_average  == Rat(N, 2)
           quantum_operations == opt
           speedup == RatDiv(classical_average, quantum_operations)
       IN  /\ optimal_iterations' = opt
           /\ analysis' =
                  [num_qubits         |-> num_qubits,
                   search_space_size  |-> N,
                   optimal_iterations |-> opt,
                   theoretical_success |-> theoretical_success,
                   theoretical_success_rate |->
                       IF theoretical_success = NotComputed
                       THEN NotComputed
                       ELSE Round(theoretical_success, 1),
                   classical_average_tries |-> classical_average,
                   quantum_operations |-> quantum_operations,
                   speedup_factor     |-> Round(speedup, 2),
                   classical_worst_case   |-> N,
                   classical_average_case |-> classical_average,
                   quantum_grover     |-> quantum_operations,
                   advantage          |-> Round(speedup, 1)]
    /\ status_code' = 200
    /\ pc' = "done"
    /\ UNCHANGED <<runs, hardware>>
    /\ UNCHANGED <<endpoint, target_state, shots_field, shots, qc, oracle,
                   iteration, steps, response>>

\* The iteration count computed at the head of create_grover_circuit
\* (search, circuit) and of get_grover_iterations.
ComputeIterations ==
    /\ pc = "validated"
    /\ endpoint \in {"search", "circuit", "iterations"}
    /\ optimal_iterations' =
           IF endpoint = "iterations"
           THEN TraceOptimalIterations(Len(target_state))
           ELSE CircuitOptimalIterations(Len(target_state))
    /\ pc' = "computed"
    /\ UNCHANGED <<runs, hardware>>
    /\ UNCHANGED <<endpoint, target_state, shots_field, status_code, shots,
                   qc, oracle, iteration, steps, analysis, response>>

\* The circuit is created with a Hadamard on every qubit, the trace
\* records its round-0 step, and the oracle is built.  The oracle builder
\* raises for a qubit count outside the configured range, which the
\* handler turns into a 500.
InitSuperposition ==
    /\ pc = "computed"
    /\ Len(target_state) <= MaxSimQubits
    /\ LET num_qubits   == Len(target_state)
           target_index == ParseBin(target_state)
           circ         == Compose(QuantumCircuit(num_qubits),
                                   HLayer(num_qubits))
       IN  /\ qc' = circ
           /\ steps' = IF endpoint = "iterations"
                       THEN <<IterationStep("Initial Superposition", 0,
                                            StatevectorFromInstruction(circ),
                                            num_qubits, target_index)>>
                       ELSE steps
           /\ IF num_qubits < MIN_QUBITS \/ num_qubits > MAX_QUBITS
              THEN /\ status_code' = 500
                   /\ pc' = "done"
                   /\ UNCHANGED oracle
              ELSE /\ oracle' = build_generalized_grover_oracle(target_state)
                   /\ pc' = "oracle"
                   /\ UNCHANGED status_code
    /\ UNCHANGED <<runs, hardware>>
    /\ UNCHANGED <<endpoint, target_state, shots_field, shots,
                   optimal_iterations, iteration, analysis, response>>

\* a loop that also runs for the index equal to its bound
InRange_Inclusive(i, stop) == i <= stop

\* for i in range(stop): the body runs for the index i
InRange(i, stop) == i < stop

\* qc.compose(oracle) and, in the trace, the 'After Oracle' step
ApplyOracle ==
    /\ pc = "oracle"
    /\ InRange(iteration, optimal_iterations)
    /\ LET circ == Compose(qc, oracle.data)
       IN  /\ qc' = circ
           /\ steps' = IF endpoint = "iterations"
                       THEN Append(steps,
                                IterationStep("After Oracle", iteration + 1,
                                              StatevectorFromInstruction(circ),
                                              Len(target_state),
                                              ParseBin(target_state)))
                       ELSE steps
    /\ pc' = "diffusion"
    /\ UNCHANGED <<runs, hardware>>
    /\ UNCHANGED <<endpoint, target_state, shots_field, status_code, shots,
                   optimal_iterations, oracle, iteration, analysis, response>>

\* The diffusion gates and, in the trace, the 'After Diffusion' step;
\* create_grover_circuit closes the round with a barrier.
ApplyDiffusion ==
    /\ pc = "diffusion"
    /\ LET num_qubits == Len(target_state)
           circ == IF endpoint = "iterations"
                   THEN Compose(qc, TraceDiffusion(num_qubits))
                   ELSE Compose(qc, CircuitDiffusion(num_qubits)
                                    \o <<Gate("barrier", 0)>>)
       IN  /\ qc' = circ
           /\ steps' = IF endpoint = "iterations"
                       THEN Append(steps,
                                IterationStep("After Diffusion", iteration + 1,
                                              StatevectorFromInstruction(circ),
                                              num_qubits,
                                              ParseBin(target_state)))
                       ELSE steps
    /\ iteration' = iteration + 1
    /\ pc' = IF InRange(iteration + 1, optimal_iterations)
             THEN "oracle" ELSE "respond"
    /\ UNCHANGED <<runs, hardware>>
    /\ UNCHANGED <<endpoint, target_state, shots_field, status_code, shots,
                   optimal_iterations, oracle, analysis, response>>

\* After the last round.  create_grover_circuit appends the measurements;
\* run_grover_search runs the circuit and reports the counts and the
\* success rate; get_grover_iterations reports the amplification; the
\* handler answers 200.
Respond ==
    /\ pc = "respond"
    /\ LET num_qubits == Len(target_state)
           N          == Pow2(num_qubits)
           circ       == IF endpoint = "iterations" THEN qc
                         ELSE Compose(qc, MeasureLayer(num_qubits))
       IN  /\ qc' = circ
           /\ CASE endpoint = "search" ->
                    \E sv \in {StatevectorFromInstruction(circ)} :
                    \E tally \in Outcomes(Support(ProbNums(sv)),
                                          ParseBin(target_state),
                                          SimulatorShots(shots)) :
                        LET counts       == GetCounts(tally, num_qubits)
                            target_count == CountsGet(counts, target_state, 0)
                        IN  response' =
                                [target_state       |-> target_state,
                                 num_qubits         |-> num_qubits,
                                 optimal_iterations |-> optimal_iterations,
                                 shots              |-> shots,
                                 success_rate       |->
                                     SuccessRate(target_count, shots),
                                 measurements       |-> counts]
                [] endpoint = "iterations" ->
                    LET initial_target_prob == Rat(1, N)
                        final_target_prob ==
                            Rat(steps[Len(steps)].target_probability,
                                steps[Len(steps)].prob_den)
                        amplification ==
                            Amplification(final_target_prob,
                                          initial_target_prob)
                    IN  response' =
                            [target_state        |-> target_state,
                             num_qubits          |-> num_qubits,
                             optimal_iterations  |-> optimal_iterations,
                             search_space_size   |-> N,
                             final_amplification |-> Round(amplification, 2)]
                [] OTHER ->
                    response' =
                        [target_state       |-> target_state,
                         num_qubits         |-> circ.num_qubits,
                         num_classical_bits |-> num_qubits,
                         optimal_iterations |-> optimal_iterations]
    /\ status_code' = 200
    /\ pc' = "done"
    /\ UNCHANGED <<runs, hardware>>
    /\ UNCHANGED <<endpoint, target_state, shots_field, shots,
                   optimal_iterations, oracle, iteration, steps, analysis>>

Next ==
    \/ ValidateRequest
    \/ CheckTarget
    \/ Analyze
    \/ ComputeIterations
    \/ InitSuperposition
    \/ ApplyOracle
    \/ ApplyDiffusion
    \/ Respond

Spec == Init /\ [][Next]_vars

SpecShots == InitShots /\ [][Next]_vars

\* any of the four requests with a target string of binary digits, of any
\* length up to MaxLen
InitBinary ==
    /\ endpoint \in Endpoints
    /\ target_state \in UNION {[1..k -> {"0", "1"}] : k \in 0..MaxLen}
    /\ shots_field = <<>>
    /\ Received
    /\ runs = <<>>
    /\ hardware = NoHardware

\* A handler is straight-line code that the server runs to its return or
\* to its exception once the request is received: a step that can be taken
\* is taken.
SpecFair == InitBinary /\ [][Next]_vars /\ WF_vars(Next)

----------------------------------------------------------------------------
(* Search requests handled at the same time *)

\* number of search requests in flight together
NumRequests == 2

\* longest target of the requests in flight together
MaxConcLen == 1

\* the shots of the requests in flight together
ConcShots == {100, 1000}

Requests == 1..NumRequests

\* k times: the oracle, the diffusion gates and a barrier
RECURSIVE CircuitRounds(_, _, _)
CircuitRounds(oracle_data, num_qubits, k) ==
    IF k = 0 THEN <<>>
    ELSE CircuitRounds(oracle_data, num_qubits, k - 1)
         \o oracle_data \o CircuitDiffusion(num_qubits)
         \o <<Gate("barrier", 0)>>

\* create_grover_circuit(target_state): the pair it returns
create_grover_circuit(target) ==
    LET num_qubits == Len(target)
        optimal    == CircuitOptimalIterations(num_qubits)
        oracle_qc  == build_generalized_grover_oracle(target)
    IN  [circuit |-> Compose(QuantumCircuit(num_qubits),
                             HLayer(num_qubits)
                             \o CircuitRounds(oracle_qc.data, num_qubits,
                                              optimal)
                             \o MeasureLayer(num_qubits)),
         optimal_iterations |-> optimal]

\* the variables of the request followed alone
SingleRequestVars ==
    <<endpoint, target_state, shots_field, pc, status_code, shots,
      optimal_iterations, qc, oracle, iteration, steps, analysis, response>>

\* the locals of a run_grover_search call that has just been entered
NewRun(target, request_shots) ==
    [request            |-> [target_state |-> target,
                             shots |-> request_shots],
     pc                 |-> "entered",
     circuit            |-> NoCircuit,
     optimal_iterations |-> 0,
     counts             |-> <<>>,
     response           |-> NoResponse]

\* the shots a run takes from the request of another call
RunShotsOf_Latest(r) == runs[NumRequests].request.shots

\* shots=request.shots: the shots a run takes are those of its own request
RunShotsOf(r) == runs[r].request.shots

\* NumRequests valid search requests have entered run_grover_search
InitConcurrent ==
    /\ endpoint = "search"
    /\ target_state = <<>>
    /\ shots_field = <<>>
    /\ Received
    /\ hardware = NoHardware
    /\ runs \in [Requests ->
                   {NewRun(t, s) :
                        t \in {v \in UNION {StringsOfLen(n) :
                                                n \in 1..MaxConcLen} :
                                  PatternMatch(v)},
                        s \in ConcShots}]

\* circuit, optimal_iterations = create_grover_circuit(request.target_state)
ConcCreateCircuit(r) ==
    /\ runs[r].pc = "entered"
    /\ LET made == create_grover_circuit(runs[r].request.target_state)
       IN  runs' = [runs EXCEPT ![r].circuit = made.circuit,
                                ![r].optimal_iterations =
                                    made.optimal_iterations,
                                ![r].pc = "created"]
    /\ UNCHANGED SingleRequestVars
    /\ UNCHANGED hardware

\* the run on the module's simulator and counts = result.get_counts()
ConcRun(r) ==
    /\ runs[r].pc = "created"
    /\ LET target == runs[r].request.target_state
           probs  == ProbNums(StatevectorFromInstruction(runs[r].circuit))
       IN  \E tally \in Outcomes(Support(probs), ParseBin(target),
                                 SimulatorShots(RunShotsOf(r))) :
               runs' = [runs EXCEPT ![r].counts =
                                        GetCounts(tally, Len(target)),
                                    ![r].pc = "counted"]
    /\ UNCHANGED SingleRequestVars
    /\ UNCHANGED hardware

\* the success rate and the GroverResponse returned
ConcRespond(r) ==
    /\ runs[r].pc = "counted"
    /\ LET request      == runs[r].request
           counts       == runs[r].counts
           target_count == CountsGet(counts, request.target_state, 0)
       IN  runs' = [runs EXCEPT
                      ![r].response =
                          [target_state       |-> request.target_state,
                           num_qubits         |-> Len(request.target_state),
                           optimal_iterations |-> runs[r].optimal_iterations,
                           shots              |-> request.shots,
                           success_rate       |->
                               SuccessRate(target_count, request.shots),
                           measurements       |-> counts],
                      ![r].pc = "returned"]
    /\ UNCHANGED SingleRequestVars
    /\ UNCHANGED hardware

NextConcurrent ==
    \E r \in Requests :
        \/ ConcCreateCircuit(r)
        \/ ConcRun(r)
        \/ ConcRespond(r)

SpecConcurrent == InitConcurrent /\ [][NextConcurrent]_vars

----------------------------------------------------------------------------
(* Failures inside the handlers *)

\* the except clause returning a normal answer
HandlerFailureStatus_Swallowed == 200

\* except Exception: raise HTTPException(status_code=500, ...)
HandlerFailureStatus == 500

\* Building, transpiling or executing raises inside the try block of
\* run_grover_search, get_circuit_info or get_grover_iterations; the
\* except clause of the handler answers.
RaiseInHandler ==
    /\ endpoint \in {"search", "circuit", "iterations"}
    /\ pc \in {"computed", "oracle", "diffusion", "respond"}
    /\ pc' = "done"
    /\ status_code' = HandlerFailureStatus
    /\ UNCHANGED <<runs, hardware>>
    /\ UNCHANGED <<endpoint, target_state, shots_field, shots,
                   optimal_iterations, qc, oracle, iteration, steps, analysis,
                   response>>

NextFaults ==
    \/ Next
    \/ RaiseInHandler

SpecFaults == InitShots /\ [][NextFaults]_vars

----------------------------------------------------------------------------
(* IBM hardware jobs *)

\* the API keys of two clients
ApiKeys == {"keyA", "keyB"}

\* shots of a hardware request: Field(1024, ge=100, le=8192)
HardwareShots == {100, 1024}

\* the states the provider reports for a job
JobStatuses == {"QUEUED", "RUNNING", "DONE", "ERROR", "CANCELLED"}

\* the 2-bit targets IBMGroverRequest accepts: ^[01]{2}$
HardwareTargets == {v \in StringsOfLen(2) : AllBinary(v)}

\* the oracle of run_grover_on_ibm_hardware: X where the reversed target
\* has a 0, CZ, and the X gates again
HardwareOracle(target) ==
    LET rev_target == Reverse(target)
    IN  OracleXGates(rev_target) \o <<Gate("cz", 1)>>
        \o OracleXGates(rev_target)

\* the 2-qubit circuit of run_grover_on_ibm_hardware
HardwareCircuit(target) ==
    Compose(QuantumCircuit(2),
            HLayer(2) \o HardwareOracle(target)
            \o HLayer(2) \o XLayer(2) \o <<Gate("cz", 1)>> \o XLayer(2)
            \o HLayer(2) \o MeasureLayer(2))

\* bit_array.get_counts() after measure_all(): qubit q is read into
\* classical bit q and a key lists the classical bits from bit 1 to bit 0
HardwareGetCounts(tally) ==
    LET found  == {i \in DOMAIN tally : tally[i] > 0}
        Key(i) == [j \in 1..2 |-> IF Bit(i, 2 - j) = 1 THEN "1" ELSE "0"]
    IN  [k \in {Key(i) : i \in found} |->
            tally[CHOOSE i \in found : Key(i) = k]]

\* {bits[::-1]: n for bits, n in counts.items()}
ReverseKeys(counts) ==
    [k \in {Reverse(b) : b \in DOMAIN counts} |->
        counts[CHOOSE b \in DOMAIN counts : Reverse(b) = k]]

\* no job has been submitted
NoJob == [status |-> "NONE"]

\* the service, the provider and nothing submitted yet: no account is
\* saved on the server
InitHardware ==
    /\ endpoint = "search"
    /\ target_state = <<>>
    /\ shots_field = <<>>
    /\ Received
    /\ runs = <<>>
    /\ hardware = [pc              |-> "up",
                   saved_account   |-> "none",
                   job             |-> NoJob,
                   submit_response |-> <<>>,
                   status_request  |-> <<>>,
                   status_response |-> <<>>]

\* connect_to_ibm_quantum: QiskitRuntimeService.save_account(token=
\* request.api_key, ..., overwrite=True) replaces the saved account
HwConnect(key) ==
    /\ hardware.pc = "up"
    /\ hardware' = [hardware EXCEPT !.saved_account = key]
    /\ UNCHANGED SingleRequestVars
    /\ UNCHANGED runs

\* run_grover_on_ibm_hardware by the client of key: the account is saved,
\* the circuit is built and submitted, the tags may or may not be stored,
\* and the answer is QUEUED without results
HwRunGrover(key) ==
    /\ hardware.pc = "up"
    /\ hardware.job = NoJob
    /\ \E target \in HardwareTargets, request_shots \in HardwareShots,
          tags_stored \in BOOLEAN :
           hardware' =
               [hardware EXCEPT
                  !.saved_account = key,
                  !.job = [status  |-> "QUEUED",
                           owner   |-> key,
                           target  |-> target,
                           circuit |-> HardwareCircuit(target),
                           shots   |-> request_shots,
                           tags    |-> IF tags_stored
                                       THEN <<target>> ELSE <<>>,
                           tally   |-> <<>>],
                  !.submit_response = <<[status  |-> "QUEUED",
                                         results |-> <<>>]>>]
    /\ UNCHANGED SingleRequestVars
    /\ UNCHANGED runs

\* the provider starts the queued job
ProviderStart ==
    /\ hardware.pc = "up"
    /\ hardware.job.status = "QUEUED"
    /\ hardware' = [hardware EXCEPT !.job.status = "RUNNING"]
    /\ UNCHANGED SingleRequestVars
    /\ UNCHANGED runs

\* the provider ends the job: with the tally of its shots on the device,
\* where any of the four basis states can be found, or without one
ProviderFinish ==
    /\ hardware.pc = "up"
    /\ hardware.job.status \in {"QUEUED", "RUNNING"}
    /\ \/ \E tally \in Outcomes(0..3, ParseBin(hardware.job.target),
                                hardware.job.shots) :
              hardware' = [hardware EXCEPT !.job.status = "DONE",
                                           !.job.tally = tally]
       \/ \E st \in {"ERROR", "CANCELLED"} :
              hardware' = [hardware EXCEPT !.job.status = st]
    /\ UNCHANGED SingleRequestVars
    /\ UNCHANGED runs

\* service = QiskitRuntimeService(instance=instance) in get_ibm_job_status:
\* the account the service is created with is the one saved on the server;
\* the authorization header is not read
ServiceAccount(authorization) == hardware.saved_account

\* the results object get_ibm_job_status builds for a DONE job
JobResults(job) ==
    LET counts       == ReverseKeys(HardwareGetCounts(job.tally))
        target_tag   == job.tags
        total_shots  == SumOver(counts, DOMAIN counts)
        success_rate == IF target_tag = <<>> THEN Rat(0, 1)
                        ELSE Rat(CountsGet(counts, target_tag[1], 0) * 100,
                                 total_shots)
    IN  [counts       |-> counts,
         success_rate |-> success_rate,
         target_state |-> target_tag,
         total_shots  |-> total_shots]

\* get_ibm_job_status for the submitted job, asked with an authorization
\* header.  The job is found only by the account that owns it; any failure
\* before the answer is built gives 500; a failure while the results of a
\* DONE job are read is logged and the answer is returned without results.
HwJobStatus(authorization) ==
    /\ hardware.pc = "up"
    /\ hardware.job # NoJob
    /\ LET job     == hardware.job
           account == ServiceAccount(authorization)
           request == <<[authorization |-> authorization]>>
       IN  IF account # job.owner
           THEN hardware' =
                    [hardware EXCEPT
                       !.status_request = request,
                       !.status_response =
                           <<[http |-> 500, account |-> account,
                              status |-> "", results |-> <<>>]>>]
           ELSE \E extracted \in BOOLEAN :
                    hardware' =
                        [hardware EXCEPT
                           !.status_request = request,
                           !.status_response =
                               <<[http    |-> 200,
                                  account |-> account,
                                  status  |-> job.status,
                                  results |->
                                      IF job.status = "DONE" /\ extracted
                                      THEN <<JobResults(job)>>
                                      ELSE <<>>]>>]
    /\ UNCHANGED SingleRequestVars
    /\ UNCHANGED runs

NextHardware ==
    \/ \E key \in ApiKeys : HwConnect(key)
    \/ \E key \in ApiKeys : HwRunGrover(key)
    \/ ProviderStart
    \/ ProviderFinish
    \/ \E authorization \in ApiKeys : HwJobStatus(authorization)

SpecHardware == InitHardware /\ [][NextHardware]_vars

TypeOK ==
    /\ pc \in {"received", "handler", "validated", "computed", "oracle",
               "diffusion", "respond", "done"}
    /\ status_code \in {0, 200, 400, 404, 422, 500}
    /\ iteration \in 0..optimal_iterations

----------------------------------------------------------------------------
(* Properties *)

\* the rule for targets: non-empty, binary, length within the bounds
ValidTargetSpec(v) ==
    /\ Len(v) > 0
    /\ \A i \in 1..Len(v) : v[i] = "0" \/ v[i] = "1"
    /\ MIN_QUBITS <= Len(v)
    /\ Len(v) <= MAX_QUBITS

\* the request was answered with a validation or routing error
Rejected == pc = "done" /\ status_code \in {400, 404, 422}

\* all binary strings of length n
BitStrings(n) == [1..n -> {"0", "1"}]

\* the basis state |j> on n qubits
BasisState(j, n) ==
    [amp |-> [i \in 0..(Pow2(n) - 1) |-> IF i = j THEN 1 ELSE 0], e |-> 0]

\* the amplitude at index j multiplied by -1, all others unchanged
SignFlip(sv, j) ==
    [sv EXCEPT !.amp = [i \in DOMAIN sv.amp |->
                          IF i = j THEN 0 - sv.amp[i] ELSE sv.amp[i]]]

\* every amplitude a[i] replaced by 2*mean - a[i], where mean is the sum
\* of the amplitudes of sv divided by 2^n
InversionAboutMean(sv, n) ==
    LET total == SumOver(sv.amp, DOMAIN sv.amp)
    IN  Normalize([amp |-> [i \in DOMAIN sv.amp |->
                              2 * total - Pow2(n) * sv.amp[i]],
                   e   |-> sv.e + 2 * n])

\* every amplitude of sv multiplied by -1
Negated(sv) == [sv EXCEPT !.amp = [i \in DOMAIN sv.amp |-> 0 - sv.amp[i]]]

\* the diffusion gates of the current endpoint
DiffusionGates(n) ==
    IF endpoint = "iterations" THEN TraceDiffusion(n) ELSE CircuitDiffusion(n)

C2_InvalidNeverSimulated ==
    ~ValidTargetSpec(target_state) =>
        /\ qc = NoCircuit
        /\ oracle = NoCircuit
        /\ steps = <<>>
        /\ iteration = 0
        /\ pc \in {"received", "done"}
        /\ status_code \notin {200, 500}

C2_Witness ==
    /\ endpoint = "iterations"
    /\ pc = "done"
    /\ status_code = 422
    /\ Len(target_state) = 3
    /\ ~AllBinary(target_state)

\* the rounds for n = 1..8
ExpectedIterations == <<1, 1, 2, 3, 4, 6, 8, 12>>

\* C3: whenever an operation has computed the number of rounds for an
\* n-qubit target it is 1, 1, 2, 3, 4, 6, 8, 12 for n = 1..8, and the
\* entry of the info examples table for n, when there is one, is that
\* number.
C3_IterationTable ==
    optimal_iterations # 0 =>
        LET n == Len(target_state)
        IN  /\ n \in 1..8
            /\ optimal_iterations = ExpectedIterations[n]
            /\ n \in DOMAIN InfoExamples
                   => InfoExamples[n] = optimal_iterations

C3_Witness ==
    /\ endpoint = "search"
    /\ pc = "computed"
    /\ Len(target_state) = 8
    /\ optimal_iterations = 12

\* C4: the number of rounds computed by any of analyze, search, circuit
\* and iterations for a target equals the number each of the three
\* separately coded computations gives for that target.
C4_SameIterationCount ==
    optimal_iterations # 0 =>
        LET n == Len(target_state)
        IN  /\ optimal_iterations = AnalyzeOptimalIterations(n)
            /\ optimal_iterations = TraceOptimalIterations(n)
            /\ optimal_iterations = CircuitOptimalIterations(n)

C4_Witness ==
    /\ endpoint = "circuit"
    /\ pc = "computed"
    /\ Len(target_state) = 7
    /\ optimal_iterations = 8

\* the gates of k rounds of the trace: oracle then diffusion, k times
RECURSIVE TraceRounds(_, _)
TraceRounds(k, n) ==
    IF k = 0 THEN <<>>
    ELSE TraceRounds(k - 1, n) \o oracle.data \o TraceDiffusion(n)

\* step number j of a trace has the name and round number of its place
StepInPlace(j) ==
    IF j = 1
    THEN /\ steps[j].step_name = "Initial Superposition"
         /\ steps[j].iteration_number = 0
    ELSE IF j % 2 = 0
         THEN /\ steps[j].step_name = "After Oracle"
              /\ steps[j].iteration_number = j \div 2
         ELSE /\ steps[j].step_name = "After Diffusion"
              /\ steps[j].iteration_number = (j - 1) \div 2

\* C5: the steps recorded so far are always in their places (initial
\* step, then oracle and diffusion of round 1, of round 2, ...), the
\* finished trace has exactly 1 + 2*optimal_iterations of them, and its
\* circuit is the Hadamard layer followed by optimal_iterations times the
\* whole oracle and then the whole diffusion.
C5_TraceOrder ==
    endpoint = "iterations" =>
        /\ \A j \in 1..Len(steps) : StepInPlace(j)
        /\ Len(steps) <= 1 + 2 * optimal_iterations
        /\ pc = "diffusion" => Len(steps) = 2 * (iteration + 1)
        /\ pc = "oracle" => Len(steps) = 2 * iteration + 1
        /\ (pc = "done" /\ status_code = 200) =>
               /\ Len(steps) = 1 + 2 * optimal_iterations
               /\ qc.data = HLayer(Len(target_state))
                            \o TraceRounds(optimal_iterations,
                                           Len(target_state))

C5_Witness ==
    /\ endpoint = "iterations"
    /\ pc = "done"
    /\ Len(steps) = 5
    /\ steps[4].step_name = "After Oracle"
    /\ steps[5].step_name = "After Diffusion"
    /\ steps[5].iteration_number = 2

\* C6: the round-0 step of a trace maps each of the 2^n binary strings of
\* length n, the target among them, to probability exactly 1/2^n.
C6_UniformInitialStep ==
    (endpoint = "iterations" /\ Len(steps) >= 1) =>
        LET n == Len(target_state)
            s == steps[1]
        IN  /\ s.iteration_number = 0
            /\ DOMAIN s.probabilities = BitStrings(n)
            /\ \A k \in BitStrings(n) :
                   s.probabilities[k] * Pow2(n) = s.prob_den
            /\ s.target_probability * Pow2(n) = s.prob_den

C6_Witness ==
    /\ endpoint = "iterations"
    /\ target_state = <<"1", "1", "0">>
    /\ Len(steps) = 1
    /\ steps[1].probabilities[<<"0", "1", "1">>] * 8 = steps[1].prob_den

\* C7: in every recorded step of a trace the probabilities of all basis
\* states sum to 1.
C7_StepsNormalized ==
    \A j \in 1..Len(steps) :
        SumOver(steps[j].probabilities, DOMAIN steps[j].probabilities)
            = steps[j].prob_den

C7_Witness ==
    /\ endpoint = "iterations"
    /\ Len(target_state) = 3
    /\ Len(steps) = 5
    /\ steps[3].target_probability * 32 = 25 * steps[3].prob_den

\* C8: the oracle built for a target t maps the basis state of index
\* int(t, 2) to its negative and every other basis state to itself, and
\* composing it onto the circuit flips the sign of exactly that amplitude
\* of the circuit's state.
C8_OracleIsSignFlip ==
    oracle # NoCircuit =>
        LET n   == Len(target_state)
            idx == ParseBin(target_state)
        IN  /\ \A j \in 0..(Pow2(n) - 1) :
                   ApplyGates(BasisState(j, n), oracle.data)
                       = IF j = idx THEN Negated(BasisState(j, n))
                         ELSE BasisState(j, n)
            /\ StatevectorFromInstruction(Compose(qc, oracle.data))
                   = SignFlip(StatevectorFromInstruction(qc), idx)

C8_Witness ==
    /\ oracle # NoCircuit
    /\ target_state = <<"0", "1", "1">>
    /\ pc = "diffusion"
    /\ StatevectorFromInstruction(qc).amp[3] < 0

\* C9 as stated: the diffusion gates replace every amplitude a[i] by
\* 2*mean - a[i].
C9_DiffusionIsInversion ==
    pc = "diffusion" =>
        LET n  == Len(target_state)
            sv == StatevectorFromInstruction(qc)
        IN  ApplyGates(sv, DiffusionGates(n)) = InversionAboutMean(sv, n)

\* C9 amended: the diffusion gates replace every amplitude a[i] by
\* a[i] - 2*mean, the negative of 2*mean - a[i], with mean the sum of all
\* amplitudes before the diffusion divided by 2^n; this holds of the
\* state of the run and of every basis state.
C9_DiffusionIsNegatedInversion ==
    pc = "diffusion" =>
        LET n  == Len(target_state)
            sv == StatevectorFromInstruction(qc)
        IN  /\ ApplyGates(sv, DiffusionGates(n))
                   = Negated(InversionAboutMean(sv, n))
            /\ \A j \in 0..(Pow2(n) - 1) :
                   ApplyGates(BasisState(j, n), DiffusionGates(n))
                       = Negated(InversionAboutMean(BasisState(j, n), n))

C9_Witness ==
    /\ pc = "diffusion"
    /\ endpoint = "iterations"
    /\ target_state = <<"1", "0", "1">>
    /\ iteration = 1

\* C10: the trace of target "1" ends, after its single round, with target
\* probability 1.
C10_OneQubitCertain ==
    (endpoint = "iterations" /\ pc = "done" /\ target_state = <<"1">>) =>
        /\ optimal_iterations = 1
        /\ steps[Len(steps)].target_probability
               = steps[Len(steps)].prob_den

\* the last recorded step of the trace
LastStep == steps[Len(steps)]

\* C11: the finished trace of target "11" has run exactly one round and
\* its last step gives the target probability 1 and every other basis
\* state probability 0.
C11_TwoQubitCertain ==
    (endpoint = "iterations" /\ pc = "done"
         /\ target_state = <<"1", "1">>) =>
        /\ optimal_iterations = 1
        /\ Len(steps) = 3
        /\ LastStep.target_probability = LastStep.prob_den
        /\ LastStep.probabilities[<<"1", "1">>] = LastStep.prob_den
        /\ \A k \in BitStrings(2) \ {<<"1", "1">>} :
               LastStep.probabilities[k] = 0

C11_Witness ==
    /\ endpoint = "iterations"
    /\ pc = "done"
    /\ status_code = 200
    /\ target_state = <<"1", "1">>
    /\ LastStep.step_name = "After Diffusion"

\* C12: when a trace is finished the target probability of its last step
\* is at least the target probability 1/2^n of its round-0 step.
C12_FinalAtLeastInitial ==
    (endpoint = "iterations" /\ pc = "done" /\ status_code = 200) =>
        /\ steps[1].target_probability * Pow2(Len(target_state))
               = steps[1].prob_den
        /\ LastStep.target_probability * steps[1].prob_den
               >= steps[1].target_probability * LastStep.prob_den

C12_Witness ==
    /\ endpoint = "iterations"
    /\ pc = "done"
    /\ target_state = <<"0", "1", "0">>
    /\ Len(steps) = 5
    /\ LastStep.target_probability * 128 = 121 * LastStep.prob_den

\* the search request has been answered with its result
SearchDone == endpoint = "search" /\ pc = "done" /\ status_code = 200

\* C13: the measurement counts of a search response are integers greater
\* than 0, one for each measured key, and they sum to the requested number
\* of shots, whichever result the run gives.
C13_CountsSumToShots ==
    SearchDone =>
        LET counts == response.measurements
        IN  /\ \A k \in DOMAIN counts : counts[k] \in Nat /\ counts[k] > 0
            /\ SumOver(counts, DOMAIN counts) = RequestShots(shots_field)
            /\ response.shots = RequestShots(shots_field)

C13_Witness ==
    /\ SearchDone
    /\ shots_field = <<9999>>
    /\ Len(target_state) = 1
    /\ Cardinality(DOMAIN response.measurements) = 2
    /\ response.measurements[<<"0">>] = 1

\* the n-character binary numeral of basis index i, most significant bit
\* first: character j from the left is bit n - j of i
MsbFirstKey(i, n) ==
    [j \in 1..n |-> IF Bit(i, n - j) = 1 THEN "1" ELSE "0"]

\* the basis states whose sign the oracle flips
MarkedStates ==
    LET n == Len(target_state)
    IN  {j \in 0..(Pow2(n) - 1) :
            ApplyGates(BasisState(j, n), oracle.data)
                = Negated(BasisState(j, n))}

\* C14: a trace step maps the most-significant-bit-first numeral of every
\* basis index to the probability of that index in the circuit's state,
\* each key of the measurements of a search is such a numeral of a basis
\* index the final state gives non-zero probability, and the target string
\* is the numeral of the one index the oracle marks, so that
\* target_probability and success_rate are read at the marked state.
C14_KeysMsbFirst ==
    LET n  == Len(target_state)
        sv == StatevectorFromInstruction(qc)
    IN  /\ oracle # NoCircuit =>
               MarkedStates = {mk \in 0..(Pow2(n) - 1) :
                                   MsbFirstKey(mk, n) = target_state}
        /\ (endpoint = "iterations" /\ Len(steps) >= 1) =>
               /\ DOMAIN LastStep.probabilities
                      = {MsbFirstKey(i, n) : i \in 0..(Pow2(n) - 1)}
               /\ LastStep.prob_den = ProbDen(sv)
               /\ \A i \in 0..(Pow2(n) - 1) :
                      LastStep.probabilities[MsbFirstKey(i, n)]
                          = ProbNums(sv)[i]
               /\ LastStep.target_probability
                      = LastStep.probabilities[target_state]
        /\ SearchDone =>
               /\ \A k \in DOMAIN response.measurements :
                      \E i \in 0..(Pow2(n) - 1) :
                          /\ k = MsbFirstKey(i, n)
                          /\ ProbNums(sv)[i] > 0
               /\ \A mk \in MarkedStates :
                      response.success_rate
                          = Rat(100 * CountsGet(response.measurements,
                                                MsbFirstKey(mk, n), 0),
                                response.shots)

C14_Witness ==
    /\ SearchDone
    /\ target_state = <<"0", "1", "1">>
    /\ DOMAIN response.measurements = {<<"0", "1", "1">>, <<"1", "1", "0">>}
    /\ response.measurements[<<"1", "1", "0">>] = 1
    /\ MarkedStates = {3}

\* C15: a search request is run only with a number of shots between 100 and
\* 10000, which is the value sent or 1000 when none is sent; a request that
\* sends a value outside that range is answered 422, and no circuit, count
\* or response body ever exists for it.
C15_ShotsInRangeOrRejected ==
    endpoint = "search" =>
        /\ (pc \notin {"received", "done"} \/ status_code = 200) =>
               /\ 100 <= shots /\ shots <= 10000
               /\ shots = IF shots_field = <<>> THEN 1000 ELSE shots_field[1]
        /\ (shots_field # <<>>
                /\ (shots_field[1] < 100 \/ shots_field[1] > 10000)) =>
               /\ pc \in {"received", "done"}
               /\ pc = "done" => status_code = 422
               /\ qc = NoCircuit
               /\ oracle = NoCircuit
               /\ optimal_iterations = 0
               /\ response = NoResponse
        /\ SearchDone => response.shots = shots

C15_Witness ==
    /\ endpoint = "search"
    /\ target_state = <<"1", "1">>
    /\ shots_field = <<10001>>
    /\ pc = "done"
    /\ status_code = 422

\* the analyze request has been answered with its result
AnalyzeDone == endpoint = "analyze" /\ pc = "done" /\ status_code = 200

\* C16 as stated: analyze reports search_space_size 2^n, classical worst
\* case 2^n, classical average case 2^n / 2 and speedup_factor exactly
\* (2^n / 2) / optimal_iterations.
C16_SpeedupExact ==
    AnalyzeDone =>
        LET n == Len(target_state)
        IN  /\ analysis.search_space_size = Pow2(n)
            /\ analysis.classical_worst_case = Pow2(n)
            /\ analysis.classical_average_case.num * 2
                   = Pow2(n) * analysis.classical_average_case.den
            /\ analysis.speedup_factor.num * 2 * analysis.optimal_iterations
                   = Pow2(n) * analysis.speedup_factor.den

\* C16 amended: analyze reports search_space_size 2^n, classical worst
\* case 2^n, classical average case 2^n / 2, and as speedup_factor the
\* multiple of 0.01 nearest to (2^n / 2) / optimal_iterations, which is at
\* most 0.005 away from it; for "101" these are 8, 8, 4 and 2.
C16_SpeedupRounded ==
    AnalyzeDone =>
        LET n  == Len(target_state)
            sf == analysis.speedup_factor
            k  == analysis.optimal_iterations
        IN  /\ analysis.search_space_size = Pow2(n)
            /\ analysis.classical_worst_case = Pow2(n)
            /\ analysis.classical_average_case.num * 2
                   = Pow2(n) * analysis.classical_average_case.den
            /\ 100 % sf.den = 0
            \* | sf - 2^n / (2k) | <= 1/200, over the denominator 200*k*den
            /\ 200 * k * sf.num - 100 * Pow2(n) * sf.den <= k * sf.den
            /\ 100 * Pow2(n) * sf.den - 200 * k * sf.num <= k * sf.den
            /\ target_state = <<"1", "0", "1">> =>
                   /\ analysis.search_space_size = 8
                   /\ analysis.classical_worst_case = 8
                   /\ analysis.classical_average_case = [num |-> 4, den |-> 1]
                   /\ sf = [num |-> 2, den |-> 1]

C16_Witness ==
    /\ AnalyzeDone
    /\ Len(target_state) = 4
    /\ analysis.optimal_iterations = 3
    /\ analysis.speedup_factor = [num |-> 267, den |-> 100]

\* the state after the Hadamard layer and k rounds, each the oracle of the
\* target followed by the diffusion gates of the trace
RECURSIVE RoundsOf(_, _)
RoundsOf(target, k) ==
    IF k = 0 THEN <<>>
    ELSE RoundsOf(target, k - 1)
         \o build_generalized_grover_oracle(target).data
         \o TraceDiffusion(Len(target))

StateAfterRounds(target, k) ==
    ApplyGates(ZeroState(Len(target)),
               HLayer(Len(target)) \o RoundsOf(target, k))

\* C17: for a target whose amplitudes are computed, the theoretical success
\* percentage analyze computes equals 100 times the probability of the
\* target index in the state obtained by applying optimal_iterations rounds
\* of oracle and diffusion gates to the uniform superposition, and it lies
\* between 0 and 100; the last step of a finished trace has that same
\* target probability.
C17_TheoreticalMatchesRounds ==
    /\ (AnalyzeDone /\ Len(target_state) <= MaxSimQubits) =>
           LET sv == StateAfterRounds(target_state,
                                      analysis.optimal_iterations)
               th == analysis.theoretical_success
           IN  /\ th = Rat(100 * ProbNums(sv)[ParseBin(target_state)],
                           ProbDen(sv))
               /\ th.num >= 0
               /\ th.den > 0
               /\ th.num <= 100 * th.den
    /\ (endpoint = "iterations" /\ pc = "done" /\ status_code = 200) =>
           TheoreticalSuccess(Pow2(Len(target_state)),
                              AnalyzeOptimalIterations(Len(target_state)))
               = Rat(100 * LastStep.target_probability, LastStep.prob_den)

C17_Witness ==
    /\ AnalyzeDone
    /\ target_state = <<"1", "1", "0">>
    /\ analysis.theoretical_success = [num |-> 3025, den |-> 32]
    /\ analysis.theoretical_success_rate = [num |-> 189, den |-> 2]

\* C18: for target "101" the target index is 5, the trace and analyze both
\* compute 2 rounds, and the success percentage after the 2 rounds, in the
\* last trace step and in analyze, is at least 94.5 and at most 96.5.
C18_Target101 ==
    target_state = <<"1", "0", "1">> =>
        /\ ParseBin(target_state) = 5
        /\ oracle # NoCircuit => MarkedStates = {5}
        /\ optimal_iterations # 0 => optimal_iterations = 2
        /\ (endpoint = "iterations" /\ pc = "done") =>
               /\ Len(steps) = 5
               /\ LastStep.iteration_number = 2
               /\ LastStep.target_probability = LastStep.probabilities[
                      MsbFirstKey(5, 3)]
               /\ StatevectorFromInstruction(qc).amp[5]
                      * StatevectorFromInstruction(qc).amp[5]
                      = LastStep.target_probability
               /\ 1000 * LastStep.target_probability
                      >= 945 * LastStep.prob_den
               /\ 1000 * LastStep.target_probability
                      <= 965 * LastStep.prob_den
        /\ AnalyzeDone =>
               /\ 10 * analysis.theoretical_success.num
                      >= 945 * analysis.theoretical_success.den
               /\ 10 * analysis.theoretical_success.num
                      <= 965 * analysis.theoretical_success.den
               /\ 10 * analysis.theoretical_success_rate.num
                      >= 945 * analysis.theoretical_success_rate.den
               /\ 10 * analysis.theoretical_success_rate.num
                      <= 965 * analysis.theoretical_success_rate.den

C18_Witness ==
    /\ endpoint = "iterations"
    /\ pc = "done"
    /\ target_state = <<"1", "0", "1">>
    /\ MarkedStates = {5}
    /\ optimal_iterations = 2
    /\ LastStep.target_probability * 128 = 121 * LastStep.prob_den

\* the trace request has been answered with its result
TraceDone == endpoint = "iterations" /\ pc = "done" /\ status_code = 200

\* the target probability of the last step multiplied by 2^n
LastStepTimesN ==
    Rat(LastStep.target_probability * Pow2(Len(target_state)),
        LastStep.prob_den)

\* C19 as stated: final_amplification is exactly the target probability of
\* the last recorded step multiplied by 2^n, and that step is the 'After
\* Diffusion' step of round optimal_iterations.
C19_AmplificationExact ==
    TraceDone =>
        /\ LastStep.step_name = "After Diffusion"
        /\ LastStep.iteration_number = optimal_iterations
        /\ response.final_amplification = LastStepTimesN

\* C19 amended: the last recorded step of a trace is the 'After Diffusion'
\* step of round optimal_iterations, and final_amplification is the
\* multiple of 0.01 nearest to its target probability multiplied by 2^n, at
\* most 0.005 away from that product.
C19_AmplificationRounded ==
    TraceDone =>
        LET fa == response.final_amplification
            a  == LastStepTimesN
        IN  /\ LastStep.step_name = "After Diffusion"
            /\ LastStep.iteration_number = optimal_iterations
            /\ response.optimal_iterations = optimal_iterations
            /\ 100 % fa.den = 0
            /\ 2 * (fa.num * (100 \div fa.den) * a.den - 100 * a.num)
                   <= a.den
            /\ 2 * (100 * a.num - fa.num * (100 \div fa.den) * a.den)
                   <= a.den

C19_Witness ==
    /\ TraceDone
    /\ target_state = <<"0", "0", "1">>
    /\ LastStepTimesN = [num |-> 121, den |-> 16]
    /\ response.final_amplification = [num |-> 189, den |-> 25]

\* C20: the success_rate of a search response is 100 times the count the
\* measurements hold for the target string, 0 when they hold none, divided
\* by the requested shots, and lies between 0 and 100.
C20_SuccessRate ==
    SearchDone =>
        LET counts == response.measurements
            hits   == IF target_state \in DOMAIN counts
                      THEN counts[target_state] ELSE 0
            rate   == response.success_rate
        IN  /\ rate.den > 0
            \* rate = 100 * hits / shots, with rate in lowest terms
            /\ RequestShots(shots_field) % rate.den = 0
            /\ rate.num * (RequestShots(shots_field) \div rate.den)
                   = 100 * hits
            /\ rate.num >= 0
            /\ rate.num <= 100 * rate.den

\* a run in which no shot finds the target
C20_Witness ==
    /\ SearchDone
    /\ shots_field = <<101>>
    /\ target_state = <<"1">>
    /\ DOMAIN response.measurements = {<<"0">>}
    /\ response.success_rate = [num |-> 0, den |-> 1]

\* run r has returned a response for its own request
OwnResponse(r) ==
    LET req  == runs[r].request
        resp == runs[r].response
    IN  /\ resp.target_state = req.target_state
        /\ resp.shots = req.shots
        /\ resp.optimal_iterations
               = CircuitOptimalIterations(Len(req.target_state))
        /\ SumOver(resp.measurements, DOMAIN resp.measurements) = req.shots

WholeResult ==
    /\ iteration = optimal_iterations
    /\ optimal_iterations = CircuitOptimalIterations(Len(target_state))
    /\ response.target_state = target_state
    /\ response.optimal_iterations = optimal_iterations
    /\ endpoint = "search" =>
           /\ qc = create_grover_circuit(target_state).circuit
           /\ SumOver(response.measurements, DOMAIN response.measurements)
                  = response.shots
    /\ endpoint = "circuit" =>
           qc = create_grover_circuit(target_state).circuit
    /\ endpoint = "iterations" =>
           /\ Len(steps) = 1 + 2 * optimal_iterations
           /\ LastStep.step_name = "After Diffusion"

\* C22: when building, transpiling or executing fails in search, circuit
\* info or the trace, the request ends with status 500 and without a
\* response body; a response body exists only with status 200, and then it
\* is the result of a whole run.
C22_FailuresPropagate ==
    endpoint \in {"search", "circuit", "iterations"} =>
        /\ status_code = 500 => (pc = "done" /\ response = NoResponse)
        /\ response # NoResponse => (pc = "done" /\ status_code = 200)
        /\ (pc = "done" /\ status_code = 200) =>
               (response # NoResponse /\ WholeResult)

\* a trace that fails after its first oracle step
C22_Witness ==
    /\ endpoint = "iterations"
    /\ target_state = <<"1", "0">>
    /\ pc = "done"
    /\ status_code = 500
    /\ Len(steps) = 2
    /\ response = NoResponse

\* probability a_num / a_den is less than b_num / b_den, both denominators
\* powers of two
ProbLess(a_num, a_den, b_num, b_den) ==
    IF a_den <= b_den THEN a_num * (b_den \div a_den) < b_num
    ELSE a_num < b_num * (a_den \div b_den)

\* C23: in every round of a trace the target probability of the 'After
\* Diffusion' step is greater than that of the 'After Oracle' step of the
\* same round.
C23_DiffusionAmplifies ==
    endpoint = "iterations" =>
        \A j \in 1..Len(steps) :
            (j > 1 /\ steps[j].step_name = "After Diffusion") =>
                ProbLess(steps[j - 1].target_probability,
                         steps[j - 1].prob_den,
                         steps[j].target_probability,
                         steps[j].prob_den)

\* the basis states whose sign a sequence of oracle gates flips
MarkedBy(oracle_gates, n) ==
    {j \in 0..(Pow2(n) - 1) :
        ApplyGates(BasisState(j, n), oracle_gates)
            = Negated(BasisState(j, n))}

\* the job-status request was answered with the results of the job
StatusWithResults ==
    /\ hardware.pc = "up"
    /\ hardware.status_response # <<>>
    /\ hardware.status_response[1].results # <<>>

\* C24: when job status returns results that carry the target given at
\* submission, their success_rate is the percentage of the shots the device
\* found in the basis state that the oracle of the submitted circuit marks,
\* for every 2-bit target.
C24_HardwareRateAtMarkedState ==
    (StatusWithResults
        /\ hardware.status_response[1].results[1].target_state
               = <<hardware.job.target>>) =>
        LET job     == hardware.job
            results == hardware.status_response[1].results[1]
        IN  \A mk \in MarkedBy(HardwareOracle(job.target), 2) :
                results.success_rate = Rat(100 * job.tally[mk], job.shots)

\* C27: an answered job-status request carries a results object exactly when
\* the job's status is DONE, a DONE job's results name the target given at
\* submission, and the answer to a submission is QUEUED without results.
C27_ResultsIffDone ==
    /\ (hardware.pc = "up" /\ hardware.status_response # <<>>
            /\ hardware.status_response[1].http = 200) =>
          LET answer == hardware.status_response[1]
          IN  /\ (answer.results # <<>>) <=> (answer.status = "DONE")
              /\ answer.results # <<>> =>
                     answer.results[1].target_state = <<hardware.job.target>>
    /\ (hardware.pc = "up" /\ hardware.submit_response # <<>>) =>
          /\ hardware.submit_response[1].status = "QUEUED"
          /\ hardware.submit_response[1].results = <<>>

\* C30: a job-status request is served with the credentials of its own
\* authorization header, whatever accounts other clients have connected
\* or submitted with before it; so the owner of the job is always answered.
C30_StatusUsesOwnCredentials ==
    (hardware.pc = "up" /\ hardware.status_response # <<>>) =>
        LET request == hardware.status_request[1]
            answer  == hardware.status_response[1]
        IN  /\ answer.account = request.authorization
            /\ request.authorization = hardware.job.owner =>
                   answer.http = 200

\* the target of n zeros
ZeroTarget(n) == [i \in 1..n |-> "0"]

\* the success percentage after k rounds on the target of n zeros
ZeroTargetSuccess(n, k) ==
    LET sv == StateAfterRounds(ZeroTarget(n), k)
    IN  Rat(100 * ProbNums(sv)[0], ProbDen(sv))

\* C25: the analysis of a valid target is determined by its length n alone:
\* num_qubits is n, search_space_size 2^n, optimal_iterations the entry of
\* the iteration table for n, speedup_factor the rounded quotient of 2^n / 2
\* by that entry, and theoretical_success_rate the rounded percentage the
\* target of n zeros reaches; search and trace run the table's number of
\* rounds whatever the target, 2 for "000" and for "101".
C25_AnalysisByLengthOnly ==
    LET n == Len(target_state)
    IN  /\ AnalyzeDone =>
               /\ analysis.num_qubits = n
               /\ analysis.search_space_size = Pow2(n)
               /\ analysis.optimal_iterations = ExpectedIterations[n]
               /\ analysis.speedup_factor
                      = Round(Rat(Pow2(n), 2 * ExpectedIterations[n]), 2)
               /\ n <= MaxSimQubits =>
                      analysis.theoretical_success_rate
                          = Round(ZeroTargetSuccess(n, ExpectedIterations[n]),
                                  1)
        /\ SearchDone =>
               /\ response.optimal_iterations = ExpectedIterations[n]
               /\ iteration = ExpectedIterations[n]
        /\ TraceDone =>
               /\ LastStep.iteration_number = ExpectedIterations[n]
               /\ Len(steps) = 1 + 2 * ExpectedIterations[n]
        /\ ((AnalyzeDone \/ SearchDone \/ TraceDone)
                /\ target_state \in {<<"0", "0", "0">>, <<"1", "0", "1">>}) =>
               optimal_iterations = 2

C25_Witness ==
    /\ AnalyzeDone
    /\ target_state = <<"1", "0", "1">>
    /\ analysis.optimal_iterations = 2
    /\ analysis.search_space_size = 8
    /\ analysis.speedup_factor = [num |-> 2, den |-> 1]
    /\ analysis.theoretical_success_rate = [num |-> 189, den |-> 2]

\* the gates one round adds to the circuit of the request
RoundLength ==
    Len(oracle.data)
        + (IF endpoint = "iterations"
           THEN Len(TraceDiffusion(Len(target_state)))
           ELSE Len(CircuitDiffusion(Len(target_state))) + 1)

\* the rounds run so far are within optimal_iterations, which is at most
\* 12; when the loop is left exactly optimal_iterations rounds were run,
\* each one oracle and one diffusion
RoundsExact ==
    /\ FloorPiOver4Sqrt(0, Pow2(MAX_QUBITS)) = 12
    /\ optimal_iterations <= 12
    /\ pc \in {"oracle", "diffusion"} => iteration < optimal_iterations
    /\ pc \in {"oracle", "diffusion", "respond"} =>
           Len(qc.data) = Len(target_state) + iteration * RoundLength
                              + (IF pc = "diffusion" THEN Len(oracle.data)
                                 ELSE 0)
    /\ (pc = "respond"
            \/ (pc = "done" /\ status_code = 200 /\ endpoint # "analyze")) =>
           /\ optimal_iterations >= 1
           /\ iteration = optimal_iterations
           /\ endpoint = "iterations" =>
                  Len(steps) = 1 + 2 * optimal_iterations

\* the request is one whose run the model follows to its end
RunFollowed ==
    /\ ValidTargetSpec(target_state)
    /\ endpoint = "analyze" \/ Len(target_state) <= MaxSimQubits

\* C26: every run on a valid target ends: the loop runs exactly
\* optimal_iterations rounds, each one oracle and one diffusion, and is
\* then left; the number of rounds never exceeds
\* floor(pi/4 * sqrt(2^MAX_QUBITS)) = 12.
C26_RunTerminates ==
    /\ []RoundsExact
    /\ RunFollowed ~> (pc = "done")

C26_Witness ==
    /\ endpoint = "search"
    /\ pc = "done"
    /\ status_code = 200
    /\ target_state = <<"1", "0", "1">>
    /\ iteration = 2
    /\ optimal_iterations = 2

\* a gate that acts on the state: neither a barrier nor a measurement
IsUnitaryGate(gate) == gate.g \notin {"barrier", "measure"}

\* Hadamard on every qubit, then k rounds of the target's oracle followed
\* by the diffusion gates
GroverSequence(target, k) == HLayer(Len(target)) \o RoundsOf(target, k)

\* C28: the gates that act on the state in the circuit built for search
\* and for circuit info, and the gates of the circuit the trace has built
\* when it ends, are the same sequence for a target: Hadamard on every
\* qubit, then optimal_iterations times the oracle followed by the
\* diffusion; the states search measures are states of non-zero
\* probability in the distribution this sequence gives, which is the
\* probability mapping of the last step of the trace.
C28_SameOperatorSequence ==
    LET n        == Len(target_state)
        sequence == GroverSequence(target_state, optimal_iterations)
        final    == ProbNums(StateAfterRounds(target_state,
                                              optimal_iterations))
    IN  /\ (endpoint \in {"search", "circuit"} /\ pc = "done"
                /\ status_code = 200) =>
               /\ SelectSeq(qc.data, IsUnitaryGate) = sequence
               /\ SelectSeq(create_grover_circuit(target_state).circuit.data,
                            IsUnitaryGate) = sequence
        /\ SearchDone =>
               \A i \in DOMAIN final :
                   CountsGet(response.measurements, CountsKey(i, n), 0) > 0
                       => final[i] > 0
        /\ TraceDone =>
               /\ qc.data = sequence
               /\ LastStep.probabilities = ProbDict(final, n)
               /\ LastStep.prob_den
                      = ProbDen(StateAfterRounds(target_state,
                                                 optimal_iterations))

C28_Witness ==
    /\ SearchDone
    /\ target_state = <<"0", "1", "1">>
    /\ Len(SelectSeq(qc.data, IsUnitaryGate)) = Len(qc.data) - 2 - 3
    /\ CountsGet(response.measurements, <<"0", "1", "1">>, 0) = 999

\* C29: a search for a 2-bit target with S shots is answered with all S
\* shots at the target, which is more than 95% of S: after the single round
\* every other basis state has probability 0 and the target is the only
\* key of the measurements.
C29_TwoBitAllShotsOnTarget ==
    (SearchDone /\ Len(target_state) = 2) =>
        LET S      == RequestShots(shots_field)
            counts == response.measurements
            probs  == ProbNums(StatevectorFromInstruction(qc))
        IN  /\ optimal_iterations = 1
            /\ \A i \in DOMAIN probs :
                   i # ParseBin(target_state) => probs[i] = 0
            /\ DOMAIN counts = {target_state}
            /\ counts[target_state] = S
            /\ 100 * counts[target_state] > 95 * S

C29_Witness ==
    /\ SearchDone
    /\ target_state = <<"0", "1">>
    /\ shots_field = <<9999>>
    /\ response.measurements = (<<"0", "1">> :> 9999)

====
